---------------------------- MODULE Spec2Model ----------------------------
(***************************************************************************)
(* State-machine model of firefight.js: the permission-denied simulator    *)
(* (SimulatorProxy, Simulator._simulate/_simulateCalls/_simulateCall), the *)
(* console.log interceptor and the trace-line parser processTraceLine.     *)
(*                                                                         *)
(* JavaScript strings are TLA+ strings (TLC treats them as sequences of    *)
(* characters: Len, \o, SubSeq).  Two characters are written in ASCII:     *)
(* U+2713 (check mark) is "+" and U+2717 (ballot x) is "~"; no input line  *)
(* of the model contains either.  A JavaScript value that may be undefined *)
(* is a tuple: <<>> is undefined and <<v>> is the value v.                *)
(***************************************************************************)
EXTENDS Integers, Sequences, FiniteSets, TLC

(***************************************************************************)
(* Strings                                                                 *)
(***************************************************************************)
Undefined == <<>>

Val(v) == <<v>>

\* String(v) as used by string concatenation: undefined prints "undefined".
StringOf(v) == IF v = Undefined THEN "undefined" ELSE v[1]

Ch(s, i) == SubSeq(s, i, i)

\* String.prototype.startsWith
StartsWith(s, p) == Len(s) >= Len(p) /\ SubSeq(s, 1, Len(p)) = p

\* String.prototype.slice(n)
Slice(s, n) == SubSeq(s, n + 1, Len(s))

\* the regular expression class \s, over the characters the model uses
WhiteSpace == {" ", "\t", "\n"}

\* the regular expression class \d
Digit == {"0", "1", "2", "3", "4", "5", "6", "7", "8", "9"}

CheckMark == "+"

BallotX == "~"

\* Array.prototype.join over an array of possibly-undefined elements:
\* undefined elements and holes join as the empty string.
RECURSIVE Join(_, _)
Join(arr, sep) ==
  IF Len(arr) = 0 THEN ""
  ELSE IF Len(arr) = 1 THEN (IF arr[1] = Undefined THEN "" ELSE arr[1][1])
  ELSE (IF arr[1] = Undefined THEN "" ELSE arr[1][1]) \o sep \o Join(Tail(arr), sep)

\* the length of the longest prefix of s made of characters of class
RECURSIVE RunLength(_, _)
RunLength(s, class) ==
  IF Len(s) > 0 /\ Ch(s, 1) \in class THEN 1 + RunLength(Tail(s), class) ELSE 0

\* the index of the first character of s that is c, or Len(s) + 1
RECURSIVE IndexOf(_, _)
IndexOf(s, c) ==
  IF Len(s) = 0 \/ Ch(s, 1) = c THEN 1 ELSE 1 + IndexOf(Tail(s), c)

\* the index of the last character of s that is c, or 0
RECURSIVE LastIndexOf(_, _)
LastIndexOf(s, c) ==
  IF Len(s) = 0 THEN 0
  ELSE IF Ch(s, Len(s)) = c THEN Len(s)
  ELSE LastIndexOf(SubSeq(s, 1, Len(s) - 1), c)

(***************************************************************************)
(* The regular expressions of the interceptor and of processTraceLine      *)
(***************************************************************************)
FirebasePrefix == "FIREBASE: "

\* /^(FIREBASE: \n?)+/.test(message)
MatchesPrefix(message) == StartsWith(message, FirebasePrefix)

\* line.replace(/^(FIREBASE: \n?)+/, ''): every leading repeat of the marker,
\* each with its optional newline, is removed.
RECURSIVE StripPrefix(_)
StripPrefix(line) ==
  IF StartsWith(line, FirebasePrefix)
  THEN LET rest == Slice(line, Len(FirebasePrefix))
       IN  StripPrefix(IF StartsWith(rest, "\n") THEN Slice(rest, 1) ELSE rest)
  ELSE line

\* the (read|write|validate) tag of the optional group (?:\.(read|write|validate):)?
\* at the start of s, or undefined
RuleTag(s) ==
  IF StartsWith(s, ".read:") THEN Val("read")
  ELSE IF StartsWith(s, ".write:") THEN Val("write")
  ELSE IF StartsWith(s, ".validate:") THEN Val("validate")
  ELSE Undefined

\* the replacement callback: (match, g1, g2) => ' ' + g2 + ' ' + g1, with g2
\* defaulting to 'read' and 'validate' renamed to 'value'
RuleReplacement(g1, g2) ==
  LET kind == IF g2 = Undefined THEN "read"
              ELSE IF g2[1] = "validate" THEN "value" ELSE g2[1]
  IN  " " \o kind \o " " \o g1

\* line.replace(/^\s+([^.]*):(?:\.(read|write|validate):)?.*/g, callback).
\* \s+ takes the leading white space; [^.]* is greedy and backs off to the
\* last ':' before the first '.'; the optional tag must follow that ':'
\* immediately; .* runs to the end of the line (it does not cross a newline).
RewriteRuleCheck(line) ==
  LET ws    == RunLength(line, WhiteSpace)
      body  == Slice(line, ws)
      noDot == SubSeq(body, 1, IndexOf(body, ".") - 1)
      colon == LastIndexOf(noDot, ":")
      g1    == SubSeq(body, 1, colon - 1)
      after == Slice(body, colon)
      g2    == RuleTag(after)
      tail  == IF g2 = Undefined THEN after ELSE Slice(after, Len(g2[1]) + 2)
      rest  == Slice(tail, IndexOf(tail, "\n") - 1)
  IN  IF ws = 0 \/ colon = 0 THEN line ELSE RuleReplacement(g1, g2) \o rest

\* /^\s+/.test(line)
IsIndented(line) == Len(line) > 0 /\ Ch(line, 1) \in WhiteSpace

\* line.match(/^\s+=> (true|false)/): the captured word, or undefined
OutcomeMatch(line) ==
  LET body == Slice(line, RunLength(line, WhiteSpace))
  IN  IF ~IsIndented(line) THEN Undefined
      ELSE IF StartsWith(body, "=> true") THEN Val("true")
      ELSE IF StartsWith(body, "=> false") THEN Val("false")
      ELSE Undefined

\* /^\d+:\d+: /.test(line)
IsNumbered(line) ==
  LET d1 == RunLength(line, Digit)
      r1 == Slice(line, d1)
      d2 == RunLength(Slice(r1, 1), Digit)
      r2 == Slice(r1, 1 + d2)
  IN  d1 > 0 /\ StartsWith(r1, ":") /\ d2 > 0 /\ StartsWith(r2, ": ")

(***************************************************************************)
(* The TraceBuffer: a JavaScript array.  arr holds its indexed elements    *)
(* (an element that is undefined is a hole) and undef holds its property   *)
(* named "undefined", which a read or write through an undefined index     *)
(* reaches.  Indices are JavaScript's, from 0.                              *)
(***************************************************************************)
EmptyArray == [arr |-> <<>>, undef |-> Undefined]

\* simulationConsoleLogs[index]
ArrayGet(b, index) ==
  IF index = Undefined THEN b.undef
  ELSE IF index[1] < Len(b.arr) THEN b.arr[index[1] + 1]
  ELSE Undefined

\* simulationConsoleLogs[index] = v; writing past the end leaves holes
ArraySet(b, index, v) ==
  IF index = Undefined THEN [b EXCEPT !.undef = v]
  ELSE IF index[1] < Len(b.arr) THEN [b EXCEPT !.arr[index[1] + 1] = v]
  ELSE [b EXCEPT !.arr = b.arr \o [i \in 1..(index[1] - Len(b.arr)) |-> Undefined] \o <<v>>]

\* simulationConsoleLogs.splice(index, 1); an undefined start is 0
ArraySplice(b, index) ==
  LET start == IF index = Undefined THEN 0 ELSE index[1]
  IN  IF start >= Len(b.arr) THEN b
      ELSE [b EXCEPT !.arr = SubSeq(b.arr, 1, start) \o SubSeq(b.arr, start + 2, Len(b.arr))]

\* simulationConsoleLogs.pop()
ArrayPop(b) ==
  IF Len(b.arr) = 0 THEN b ELSE [b EXCEPT !.arr = SubSeq(b.arr, 1, Len(b.arr) - 1)]

\* simulationConsoleLogs.push(s)
ArrayPush(b, s) == [b EXCEPT !.arr = Append(b.arr, Val(s))]

\* lastTestIndex === simulationConsoleLogs.length - 1
PointsAtLast(b, index) == index # Undefined /\ index[1] = Len(b.arr) - 1

\* mutant: a stale pending entry is never dropped
DropNothing(b, index) == b

\* if (lastTestIndex === simulationConsoleLogs.length - 1) simulationConsoleLogs.pop();
DropStale(b, index) == IF PointsAtLast(b, index) THEN ArrayPop(b) ELSE b

(***************************************************************************)
(* processTraceLine(line), as a function of the two module-level variables *)
(* it reads and writes.  The result is the new value of both and whether   *)
(* the call threw a TypeError (which leaves both as they were: every throw *)
(* happens before the first write).                                        *)
(***************************************************************************)
Threw(logs, index) == [threw |-> TRUE, logs |-> logs, index |-> index]

Returned(b, index) == [threw |-> FALSE, logs |-> Val(b), index |-> index]

\* mutant: the marks of true and false are swapped
ProcessOutcomeSwapped(b, index, word) ==
  LET pending == ArrayGet(b, index)
  IN  IF word = "true" /\ pending = Undefined
      THEN Threw(Val(b), index)
      ELSE IF word = "true" /\ StartsWith(pending[1], " value")
      THEN Returned(ArraySplice(b, index), Undefined)
      ELSE Returned(
             ArraySet(b, index,
               Val((IF word = "true" THEN " " \o BallotX ELSE " " \o CheckMark)
                   \o StringOf(pending))),
             Undefined)

\* mutant: a passing value check is marked like any other
ProcessOutcomeNoElision(b, index, word) ==
  LET pending == ArrayGet(b, index)
  IN  IF word = "true" /\ pending = Undefined
      THEN Threw(Val(b), index)
      ELSE Returned(
             ArraySet(b, index,
               Val((IF word = "true" THEN " " \o CheckMark ELSE " " \o BallotX)
                   \o StringOf(pending))),
             Undefined)

\* lines 160-167: an outcome line '=> true' or '=> false'
ProcessOutcome(b, index, word) ==
  LET pending == ArrayGet(b, index)
  IN  IF word = "true" /\ pending = Undefined
      THEN Threw(Val(b), index)        \* undefined.startsWith
      ELSE IF word = "true" /\ StartsWith(pending[1], " value")
      THEN Returned(ArraySplice(b, index), Undefined)
      ELSE Returned(
             ArraySet(b, index,
               Val((IF word = "true" THEN " " \o CheckMark ELSE " " \o BallotX)
                   \o StringOf(pending))),
             Undefined)

\* mutant: the pushed entry does not become the pending one
ProcessPendingCursorKept(b, index, line) ==
  Returned(ArrayPush(DropStale(b, index), line), index)

\* lines 169-171: an indented line that is not an outcome becomes the pending entry
ProcessPending(b, index, line) ==
  LET pushed == ArrayPush(DropStale(b, index), line)
  IN  Returned(pushed, Val(Len(pushed.arr) - 1))

\* line 174: a numbered top-level line
ProcessNumbered(b, index, line) == Returned(ArrayPush(b, "   " \o line), index)

\* lines 176-178: any other top-level line
ProcessOther(b, index, line) == Returned(ArrayPush(DropStale(b, index), line), Undefined)

processTraceLine(logs, index, message) ==
  LET line  == RewriteRuleCheck(StripPrefix(message))
      match == OutcomeMatch(line)
  IN  IF logs = Undefined THEN Threw(logs, index)   \* a property read of undefined
      ELSE IF IsIndented(line)
      THEN IF match # Undefined
           THEN ProcessOutcome(logs[1], index, match[1])
           ELSE ProcessPending(logs[1], index, line)
      ELSE IF IsNumbered(line) THEN ProcessNumbered(logs[1], index, line)
      ELSE ProcessOther(logs[1], index, line)

(***************************************************************************)
(* Errors of the database client: objects with an optional code and an     *)
(* optional message, both strings.                                          *)
(***************************************************************************)
LowerOf ==
  [c \in {"A","B","C","D","E","F","G","H","I","J","K","L","M",
          "N","O","P","Q","R","S","T","U","V","W","X","Y","Z"} |->
     CASE c = "A" -> "a" [] c = "B" -> "b" [] c = "C" -> "c" [] c = "D" -> "d"
       [] c = "E" -> "e" [] c = "F" -> "f" [] c = "G" -> "g" [] c = "H" -> "h"
       [] c = "I" -> "i" [] c = "J" -> "j" [] c = "K" -> "k" [] c = "L" -> "l"
       [] c = "M" -> "m" [] c = "N" -> "n" [] c = "O" -> "o" [] c = "P" -> "p"
       [] c = "Q" -> "q" [] c = "R" -> "r" [] c = "S" -> "s" [] c = "T" -> "t"
       [] c = "U" -> "u" [] c = "V" -> "v" [] c = "W" -> "w" [] c = "X" -> "x"
       [] c = "Y" -> "y" [] c = "Z" -> "z"]

\* String.prototype.toLowerCase
RECURSIVE ToLowerCase(_)
ToLowerCase(s) ==
  IF Len(s) = 0 THEN ""
  ELSE (IF Ch(s, 1) \in DOMAIN LowerOf THEN LowerOf[Ch(s, 1)] ELSE Ch(s, 1))
       \o ToLowerCase(Tail(s))

\* JavaScript truthiness of an optional string
Truthy(v) == v # Undefined /\ v[1] # ""

\* isPermissionDenied(error): the value of
\*   code && code.toLowerCase() === 'permission_denied'
\* with code = error.code || error.message, written as a JavaScript literal:
\* "true", "false", or the falsy code itself ("undefined" or "''").
isPermissionDenied(error) ==
  LET code == IF Truthy(error.code) THEN error.code ELSE error.message
  IN  IF code = Undefined THEN "undefined"
      ELSE IF code[1] = "" THEN "''"
      ELSE IF ToLowerCase(code[1]) = "permission_denied" THEN "true"
      ELSE "false"

\* `${e}` for an Error object: its name, then its message when it has one
StringOfError(e) ==
  IF Truthy(e.message) THEN "Error: " \o e.message[1] ELSE "Error"

NoError == [code |-> Undefined, message |-> Undefined]

Succeeds == [ok |-> TRUE, error |-> NoError]

FailsWith(e) == [ok |-> FALSE, error |-> e]

(***************************************************************************)
(* SimulatorProxy and Simulator                                            *)
(***************************************************************************)
ProxyMethods == {"on", "once", "set", "update", "remove", "push", "transaction"}

\* the methods class Simulator defines
SimulatorMethods ==
  {"constructor", "isPermissionDenied", "auth", "_simulate", "_simulateCalls", "_simulateCall"}

Call(method, args) == [method |-> method, args |-> args]

\* the call list each proxy method passes on
ProxyCalls(method, value) ==
  CASE method = "on"          -> << Call("once", Val(<<"value">>)) >>
    [] method = "once"        -> << Call("once", Val(<<"value">>)) >>
    [] method = "set"         -> << Call("set", Val(<<value>>)) >>
    [] method = "update"      -> << Call("update", Val(<<value>>)) >>
    [] method = "remove"      -> << Call("remove", Undefined) >>
    [] method = "push"        -> << Call("push", Val(<<value>>)) >>
    [] method = "transaction" -> << Call("once", Val(<<"value">>)), Call("set", Val(<<value>>)) >>

\* this._databaseUrl
DatabaseUrl == "https://db"

\* mutant: the ref is not validated
InDatabaseUnchecked(ref) == TRUE

\* ref.toString().startsWith(this._databaseUrl)
InDatabase(ref) == StartsWith(ref, DatabaseUrl)

\* this._simulatedFirebase.child(ref.toString().slice(this._databaseUrl.length)),
\* a reference named by its path
SimulatedRef(ref) == Slice(ref, Len(DatabaseUrl))

(***************************************************************************)
(* State                                                                   *)
(***************************************************************************)
VARIABLES
  requests,               \* every invocation of _simulate, in order: its arguments,
                          \* the promise it returned and where its task stands
  simulationQueue,        \* the tail of the promise chain: an index into requests,
                          \* or 0 for the initial Promise.resolve()
  simulationConsoleLogs,  \* the TraceBuffer; undefined until the first call
  lastTestIndex,          \* the ParserCursor; undefined is "none"
  consoleIntercepted,     \* the flag of interceptConsoleLog
  wrappers,               \* how many filters have been installed over console.log
  originalLog,            \* the argument lists that reached the original console.log
  proxyCalls,             \* every invocation of a SimulatorProxy method, in order
  ops,                    \* history: the operations invoked on the database client
  fed,                    \* history: the messages handed to processTraceLine since
                          \* the TraceBuffer was last reset, each with its emitter
  owner,                  \* history: the call that last reset the TraceBuffer
  lastLog,                \* history: how the latest console.log call ended
  logCount,               \* history: the number of console.log calls so far
  limits                  \* the inputs and bounds of the run; never changes

vars ==
  <<requests, simulationQueue, simulationConsoleLogs, lastTestIndex, consoleIntercepted,
    wrappers, originalLog, proxyCalls, ops, fed, owner, lastLog, logCount, limits>>

\* no call: the emitter of a line that no call of a request caused
NoCall == <<>>

JoinStrings(strings, sep) == Join([i \in DOMAIN strings |-> Val(strings[i])], sep)

\* the calls whose external operation is in flight
InFlight == {<<r, requests[r].idx>> : r \in {q \in DOMAIN requests : requests[q].pc = "call"}}

\* the requests holding the queue's active slot: their _simulateCalls has
\* started and their result promise is still pending
Active == {r \in DOMAIN requests : requests[r].pc \in {"auth", "call"}}

(***************************************************************************)
(* interceptConsoleLog()                                                   *)
(***************************************************************************)
\* mutant: the filter is installed by every call, without the flag's guard
interceptConsoleLogAgain == consoleIntercepted' = TRUE /\ wrappers' = wrappers + 1

interceptConsoleLog ==
  IF consoleIntercepted
  THEN UNCHANGED <<consoleIntercepted, wrappers>>
  ELSE consoleIntercepted' = TRUE /\ wrappers' = wrappers + 1

(***************************************************************************)
(* Simulator._simulate(token, ref, calls), lines 93-106.  The promise it   *)
(* returns follows the new tail of the chain; a ref outside the database   *)
(* makes the async function reject before it touches anything.             *)
(***************************************************************************)
RefError(ref) == "Error: Ref not in database " \o DatabaseUrl \o ": " \o ref

\* mutant: the task is chained onto a fresh resolved promise, not onto the tail
EnqueuedOnFreshChain(token, ref, calls) ==
  [token |-> token, ref |-> ref, simulatedRef |-> SimulatedRef(ref), calls |-> calls,
   prev |-> 0, pc |-> "queued", idx |-> 0, traces |-> <<>>, promise |-> "pending",
   result |-> "", log |-> <<>>]

Enqueued(token, ref, calls) ==
  [token |-> token, ref |-> ref, simulatedRef |-> SimulatedRef(ref), calls |-> calls,
   prev |-> simulationQueue, pc |-> "queued", idx |-> 0, traces |-> <<>>, promise |-> "pending",
   result |-> "", log |-> <<>>]

Refused(token, ref, calls) ==
  [token |-> token, ref |-> ref, simulatedRef |-> "", calls |-> calls,
   prev |-> 0, pc |-> "refused", idx |-> 0, traces |-> <<>>, promise |-> "rejected",
   result |-> RefError(ref), log |-> <<>>]

_simulate(token, ref, calls) ==
  /\ Len(requests) < limits.maxRequests
  /\ IF ~InDatabase(ref)
     THEN /\ requests' = Append(requests, Refused(token, ref, calls))
          /\ UNCHANGED <<simulationQueue, consoleIntercepted, wrappers>>
     ELSE /\ interceptConsoleLog
          /\ requests' = Append(requests, Enqueued(token, ref, calls))
          /\ simulationQueue' = Len(requests) + 1
  /\ UNCHANGED <<simulationConsoleLogs, lastTestIndex, originalLog, ops, fed, owner,
                 lastLog, logCount, limits>>

\* a caller invokes _simulate
Simulate(token, ref, calls) ==
  /\ _simulate(token, ref, calls)
  /\ UNCHANGED proxyCalls

(***************************************************************************)
(* SimulatorProxy, lines 9-43: each method calls this._simulator.simulate, *)
(* a property class Simulator does not define, so the call throws a        *)
(* TypeError inside the async method and the returned promise rejects.     *)
(***************************************************************************)
ProxyCallRecord(token, method, ref, value, request, promise) ==
  [token |-> token, method |-> method, ref |-> ref, value |-> value,
   request |-> request, promise |-> promise]

SimulatorProxyCall(token, method, ref, value) ==
  /\ Len(proxyCalls) < limits.maxProxyCalls
  /\ IF "simulate" \in SimulatorMethods
     THEN /\ _simulate(token, ref, ProxyCalls(method, value))
          /\ proxyCalls' = Append(proxyCalls,
               ProxyCallRecord(token, method, ref, value, Len(requests) + 1, "follows"))
     ELSE /\ proxyCalls' = Append(proxyCalls,
               ProxyCallRecord(token, method, ref, value, 0, "rejected"))
          /\ UNCHANGED <<requests, simulationQueue, simulationConsoleLogs, lastTestIndex,
                         consoleIntercepted, wrappers, originalLog, ops, fed, owner,
                         lastLog, logCount, limits>>

(***************************************************************************)
(* The promise chain of lines 102-104:                                     *)
(*   simulationQueue.catch(() => {}).then(() => this._simulateCalls(...))  *)
(* The task of request r runs once the promise that was the tail when r    *)
(* was enqueued has settled, fulfilled or rejected alike.                  *)
(***************************************************************************)
\* mutant: the task is not chained behind the tail
PredecessorIgnored(r) == TRUE

PredecessorSettled(r) ==
  IF requests[r].prev = 0 THEN TRUE
  ELSE requests[requests[r].prev].promise \in {"fulfilled", "rejected"}

\* an operation invoked for request r on target, the client or a path under it
Op(r, target, op, args) == [req |-> r, target |-> target, op |-> op, args |-> args]

\* lines 126 and 128: the TraceBuffer is reset and the call's method is
\* invoked on the simulated ref
BeginCall(r, i) ==
  /\ simulationConsoleLogs' = Val(EmptyArray)
  /\ ops' = Append(ops, Op(r, requests[r].simulatedRef, requests[r].calls[i].method,
                          requests[r].calls[i].args))
  /\ owner' = <<r, i>>
  /\ fed' = <<>>

\* history: how one awaited operation of a request ended: its outcome, what
\* isPermissionDenied returned for its error ("" when it was not called), the
\* entries of the TraceBuffer when it settled and the messages folded into it
LogEntry(outcome, denied, buffer, lines) ==
  [outcome |-> outcome, denied |-> denied, buffer |-> buffer, lines |-> lines]

\* mutant: no fixed message when no call contributed a trace
FinalResultNoFallback(traces) == JoinStrings(traces, "\n\n")

\* lines 118-119
FinalResult(traces) ==
  IF Len(traces) = 0 THEN "Unable to reproduce error in simulation"
  ELSE JoinStrings(traces, "\n\n")

\* mutant: _simulateCalls without its try/catch
Uncaught(e) == [promise |-> "rejected", result |-> StringOfError(e)]

\* lines 120-122: the catch of _simulateCalls turns the error into the result
CaughtResult(e) ==
  [promise |-> "fulfilled", result |-> "Error running simulation: " \o StringOfError(e)]

\* lines 129-132 and the fall through of line 128: what _simulateCall
\* resolves to, undefined when the call succeeded
SimulateCallTrace(outcome, logs) ==
  IF outcome.ok THEN Undefined
  ELSE IF isPermissionDenied(outcome.error) = "true" THEN Val(Join(logs[1].arr, "\n"))
  ELSE Val("Got a different error in simulation: " \o StringOfError(outcome.error))

\* line 116: if (trace) traces.push(trace)
PushTrace(traces, trace) == IF Truthy(trace) THEN Append(traces, trace[1]) ELSE traces

\* mutant: the task authenticates without dropping the previous identity first
StartSimulationNoUnauth(r) ==
  /\ requests[r].pc = "queued"
  /\ PredecessorSettled(r)
  /\ requests' = [requests EXCEPT ![r].pc = "auth"]
  /\ ops' = ops \o << Op(r, "", "authWithCustomToken",
                         Val(<<requests[r].token, "remember: none">>)) >>
  /\ UNCHANGED <<simulationQueue, simulationConsoleLogs, lastTestIndex, consoleIntercepted,
                 wrappers, originalLog, proxyCalls, fed, owner, lastLog, logCount, limits>>

\* lines 108-112: the task of request r starts: unauth(), then
\* authWithCustomToken(token, callback, {remember: 'none'}) is awaited
StartSimulation(r) ==
  /\ requests[r].pc = "queued"
  /\ PredecessorSettled(r)
  /\ requests' = [requests EXCEPT ![r].pc = "auth"]
  /\ ops' = ops \o << Op(r, "", "unauth", Undefined),
                      Op(r, "", "authWithCustomToken",
                         Val(<<requests[r].token, "remember: none">>)) >>
  /\ UNCHANGED <<simulationQueue, simulationConsoleLogs, lastTestIndex, consoleIntercepted,
                 wrappers, originalLog, proxyCalls, fed, owner, lastLog, logCount, limits>>

\* lines 111-115: authWithCustomToken settles; on success the first call begins
AuthSettled(r, outcome) ==
  /\ requests[r].pc = "auth"
  /\ IF ~outcome.ok
     THEN /\ requests' = [requests EXCEPT
                 ![r].pc = "done",
                 ![r].promise = CaughtResult(outcome.error).promise,
                 ![r].result = CaughtResult(outcome.error).result,
                 ![r].log = Append(@, LogEntry(outcome, "", <<>>, <<>>))]
          /\ UNCHANGED <<simulationConsoleLogs, ops, owner, fed>>
     ELSE IF Len(requests[r].calls) = 0
     THEN /\ requests' = [requests EXCEPT
                 ![r].pc = "done", ![r].promise = "fulfilled",
                 ![r].result = FinalResult(<<>>),
                 ![r].log = Append(@, LogEntry(outcome, "", <<>>, <<>>))]
          /\ UNCHANGED <<simulationConsoleLogs, ops, owner, fed>>
     ELSE /\ requests' = [requests EXCEPT
                 ![r].pc = "call", ![r].idx = 1,
                 ![r].log = Append(@, LogEntry(outcome, "", <<>>, <<>>))]
          /\ BeginCall(r, 1)
  /\ UNCHANGED <<simulationQueue, lastTestIndex, consoleIntercepted, wrappers, originalLog,
                 proxyCalls, lastLog, logCount, limits>>

\* lines 114-119 and 127-132: the external operation of the current call
\* settles; its trace is classified and the next call begins, or the
\* request ends with its result
CallSettled(r, outcome) ==
  /\ requests[r].pc = "call"
  /\ LET traces == PushTrace(requests[r].traces,
                             SimulateCallTrace(outcome, simulationConsoleLogs))
         entry  == LogEntry(outcome,
                            IF outcome.ok THEN "" ELSE isPermissionDenied(outcome.error),
                            simulationConsoleLogs[1].arr,
                            [i \in DOMAIN fed |-> fed[i].message])
     IN  IF requests[r].idx < Len(requests[r].calls)
         THEN /\ requests' = [requests EXCEPT
                     ![r].idx = @ + 1, ![r].traces = traces, ![r].log = Append(@, entry)]
              /\ BeginCall(r, requests[r].idx + 1)
         ELSE /\ requests' = [requests EXCEPT
                     ![r].pc = "done", ![r].traces = traces, ![r].promise = "fulfilled",
                     ![r].result = FinalResult(traces), ![r].log = Append(@, entry)]
              /\ UNCHANGED <<simulationConsoleLogs, ops, owner, fed>>
  /\ UNCHANGED <<simulationQueue, lastTestIndex, consoleIntercepted, wrappers, originalLog,
                 proxyCalls, lastLog, logCount, limits>>

(***************************************************************************)
(* console.log(...args), lines 142-146 once the filter is installed and    *)
(* the original function before.  emitter is the call that made the        *)
(* database client print the line: a call whose operation is in flight,    *)
(* or NoCall when none is.                                                 *)
(***************************************************************************)
Emitters == IF InFlight = {} THEN {NoCall} ELSE InFlight

ConsoleLog(args, emitter) ==
  /\ logCount < limits.maxLogs
  /\ emitter \in Emitters
  /\ logCount' = logCount + 1
  /\ LET message == JoinStrings(args, " ")
     IN  IF wrappers = 0 \/ ~MatchesPrefix(message)
         THEN /\ originalLog' = Append(originalLog, args)
              /\ lastLog' = "forwarded"
              /\ UNCHANGED <<simulationConsoleLogs, lastTestIndex, fed>>
         ELSE LET done == processTraceLine(simulationConsoleLogs, lastTestIndex, message)
              IN  /\ simulationConsoleLogs' = done.logs
                  /\ lastTestIndex' = done.index
                  /\ lastLog' = IF done.threw THEN "threw" ELSE "parsed"
                  /\ fed' = Append(fed, [message |-> message, emitter |-> emitter])
                  /\ UNCHANGED originalLog
  /\ UNCHANGED <<requests, simulationQueue, consoleIntercepted, wrappers, proxyCalls, ops,
                 owner, limits>>

(***************************************************************************)
(* Inputs and bounds                                                       *)
(***************************************************************************)
MaxRequests == 2

MaxProxyCalls == 1

MaxLogs == 2

ParserMaxLogs == 3

CursorMaxLogs == 4

PermissionDenied == [code |-> Val("PERMISSION_DENIED"), message |-> Val("permission_denied at /a")]

PermissionDeniedMessage == [code |-> Undefined, message |-> Val("permission_denied")]

NetworkError == [code |-> Val("network_error"), message |-> Val("timeout")]

InvalidToken == [code |-> Val("INVALID_TOKEN"), message |-> Val("bad token")]

InsideRef == DatabaseUrl \o "/a"

OutsideRef == "https://other/a"

\* what the database client prints in debug mode, and an unrelated line
RuleCheckLines ==
  { "  /a:.write:w", "  /b:.validate:v", "  foo: .read:bar", "  a: .write:x", "  b: .write:y" }

OutcomeLines == { "  => true", "  => false" }

TopLevelLines == { "1:2: expr", "Write was denied." }

Marked(lines) == {<<FirebasePrefix \o l>> : l \in lines}

UnrelatedLog == <<"listening", "on 8080">>

\* an unrelated line that holds the marker, but not at its start
QuotedLog == <<"saw", "FIREBASE: x">>

\* a diagnostic line printed as two arguments, which the filter joins
SplitLog == <<"FIREBASE:", "  /a:.write:w">>

QueueLimits ==
  [maxRequests |-> MaxRequests, maxProxyCalls |-> 0, maxLogs |-> MaxLogs,
   tokens |-> {"tokenA"}, refs |-> {InsideRef}, values |-> {"v"},
   proxyMethods |-> {},
   callLists |-> {ProxyCalls("set", "v"), ProxyCalls("transaction", "v")},
   errors |-> {PermissionDenied},
   authErrors |-> {InvalidToken},
   messages |-> Marked({"  /a:.write:w"})]

ResultLimits ==
  [maxRequests |-> 1, maxProxyCalls |-> 0, maxLogs |-> MaxLogs,
   tokens |-> {"tokenA"}, refs |-> {InsideRef}, values |-> {"v"},
   proxyMethods |-> {},
   callLists |-> {ProxyCalls("set", "v"), ProxyCalls("transaction", "v")},
   errors |-> {PermissionDenied, PermissionDeniedMessage, NetworkError, NoError},
   authErrors |-> {InvalidToken},
   messages |-> Marked({"  /a:.write:w", "  => false"})]

ParserLimits ==
  [maxRequests |-> 1, maxProxyCalls |-> 0, maxLogs |-> ParserMaxLogs,
   tokens |-> {"tokenA"}, refs |-> {InsideRef}, values |-> {"v"},
   proxyMethods |-> {},
   callLists |-> {ProxyCalls("transaction", "v")},
   errors |-> {PermissionDenied},
   authErrors |-> {InvalidToken},
   messages |-> Marked(RuleCheckLines \cup OutcomeLines \cup TopLevelLines)]

ProxyLimits ==
  [maxRequests |-> MaxRequests, maxProxyCalls |-> MaxProxyCalls, maxLogs |-> 1,
   tokens |-> {"tokenA"}, refs |-> {InsideRef, OutsideRef}, values |-> {"v"},
   proxyMethods |-> ProxyMethods,
   callLists |-> {ProxyCalls("set", "v")},
   errors |-> {PermissionDenied},
   authErrors |-> {InvalidToken},
   messages |-> {UnrelatedLog}]

CursorLimits ==
  [maxRequests |-> 1, maxProxyCalls |-> 0, maxLogs |-> CursorMaxLogs,
   tokens |-> {"tokenA"}, refs |-> {InsideRef}, values |-> {"v"},
   proxyMethods |-> {},
   callLists |-> {ProxyCalls("transaction", "v")},
   errors |-> {PermissionDenied},
   authErrors |-> {InvalidToken},
   messages |-> Marked({"  /a:.write:w", "  => false", "1:2: expr"})]

SinkLimits ==
  [maxRequests |-> MaxRequests, maxProxyCalls |-> 0, maxLogs |-> MaxLogs,
   tokens |-> {"tokenA"}, refs |-> {InsideRef}, values |-> {"v"},
   proxyMethods |-> {},
   callLists |-> {ProxyCalls("set", "v")},
   errors |-> {PermissionDenied},
   authErrors |-> {InvalidToken},
   messages |-> {UnrelatedLog, QuotedLog, SplitLog} \cup Marked({"  => false"})]

\* errors with every combination of a code and a message
ErrorCodes ==
  {Undefined, Val(""), Val("PERMISSION_DENIED"), Val("Permission_Denied"), Val("network_error")}

ErrorMessages ==
  {Undefined, Val(""), Val("permission_denied"), Val("permission_denied at /a"), Val("timeout")}

ClassifierLimits ==
  [maxRequests |-> 1, maxProxyCalls |-> 0, maxLogs |-> 1,
   tokens |-> {"tokenA"}, refs |-> {InsideRef}, values |-> {"v"},
   proxyMethods |-> {},
   callLists |-> {ProxyCalls("set", "v")},
   errors |-> {[code |-> c, message |-> m] : c \in ErrorCodes, m \in ErrorMessages},
   authErrors |-> {InvalidToken},
   messages |-> Marked({"  /a:.write:w"})]

(***************************************************************************)
(* Specifications                                                          *)
(***************************************************************************)
InitWith(lim) ==
  /\ requests = <<>>
  /\ simulationQueue = 0
  /\ simulationConsoleLogs = Undefined
  /\ lastTestIndex = Undefined
  /\ consoleIntercepted = FALSE
  /\ wrappers = 0
  /\ originalLog = <<>>
  /\ proxyCalls = <<>>
  /\ ops = <<>>
  /\ fed = <<>>
  /\ owner = NoCall
  /\ lastLog = "none"
  /\ logCount = 0
  /\ limits = lim

Init == InitWith(QueueLimits)

ParserInit == InitWith(ParserLimits)

ProxyInit == InitWith(ProxyLimits)

ResultInit == InitWith(ResultLimits)

CursorInit == InitWith(CursorLimits)

SinkInit == InitWith(SinkLimits)

ClassifierInit == InitWith(ClassifierLimits)

Outcomes(errors) == {Succeeds} \cup {FailsWith(e) : e \in errors}

\* a caller submits a request through _simulate
Submit ==
  \E token \in limits.tokens, ref \in limits.refs, calls \in limits.callLists :
    Simulate(token, ref, calls)

\* a caller invokes a method of a proxy obtained from auth(claims)
CallProxy ==
  \E token \in limits.tokens, method \in limits.proxyMethods,
     ref \in limits.refs, value \in limits.values :
    SimulatorProxyCall(token, method, ref, value)

\* the promise reactions of the queue and of the database client
Run ==
  \/ \E r \in DOMAIN requests : StartSimulation(r)
  \/ \E r \in DOMAIN requests, outcome \in Outcomes(limits.authErrors) :
       AuthSettled(r, outcome)
  \/ \E r \in DOMAIN requests, outcome \in Outcomes(limits.errors) :
       CallSettled(r, outcome)

Log == \E args \in limits.messages, emitter \in Emitters : ConsoleLog(args, emitter)

Next == Submit \/ Run \/ Log

ProxyNext == CallProxy \/ Next

\* the simulator under concurrent requests submitted through _simulate
Spec == Init /\ [][Next]_vars

\* the same, with the scheduling liveness rests on: the event loop runs every
\* promise reaction that is ready, and every operation awaited on the
\* database client settles; at most one step of Run is possible at a time
LiveSpec == Init /\ [][Next]_vars /\ WF_vars(Run)

\* one transaction request and the alphabet of diagnostic lines
ParserSpec == ParserInit /\ [][Next]_vars

\* one request and every kind of outcome of its calls
ResultSpec == ResultInit /\ [][Next]_vars

\* every proxy method, on refs inside and outside the database
ProxySpec == ProxyInit /\ [][ProxyNext]_vars

\* one transaction request: two calls in a row, each with its own TraceBuffer
\* and both with the one cursor
CursorSpec == CursorInit /\ [][Next]_vars

\* two requests while console.log is called with unrelated and diagnostic lines
SinkSpec == SinkInit /\ [][Next]_vars

\* one set request whose call fails with every kind of error
ClassifierSpec == ClassifierInit /\ [][Next]_vars

(***************************************************************************)
(* Properties                                                              *)
(***************************************************************************)
\* the requests _simulate accepted, in submission order
Accepted == {r \in DOMAIN requests : requests[r].pc # "refused"}

\* the operations invoked on the database client for request r
OpsOf(r) == {i \in DOMAIN ops : ops[i].req = r}

\* C1: mutual exclusion.  At every instant at most one request is active
\* (from its unauth until its result promise settles), and no operation of
\* the database client is invoked for a request while another one is active.
C1_MutualExclusion ==
  /\ [](Cardinality(Active) <= 1)
  /\ [][\A i \in (Len(ops) + 1)..Len(ops') : Active \subseteq {ops'[i].req}]_vars

\* C1 witness: one request is in the middle of a call while another one,
\* submitted meanwhile, waits in the queue.
C1_Witness ==
  \E r, q \in DOMAIN requests : requests[r].pc = "call" /\ requests[q].pc = "queued"

\* C2: FIFO without interleaving.  A request has started only if every
\* request accepted before it has completed, so requests start and complete
\* in submission order; and while a call is in flight every line folded into
\* the TraceBuffer since that call reset it was emitted for that very call.
C2_FifoNoInterleaving ==
  /\ \A r, q \in Accepted :
       (r < q /\ requests[q].pc # "queued") => requests[r].pc = "done"
  /\ owner \in InFlight => \A i \in DOMAIN fed : fed[i].emitter = owner

\* C2 witness: the second request is in its call with a line folded for it,
\* after the first request completed with a line in its own trace.
C2_Witness ==
  /\ Len(requests) = 2
  /\ requests[1].pc = "done" /\ requests[1].traces # <<>>
  /\ requests[2].pc = "call" /\ owner = <<2, 1>> /\ Len(fed) > 0

\* the result promise of request r rejects with a TypeError when it calls
\* the missing method
ProxyRejected(i) == proxyCalls[i].promise = "rejected"

\* C3: for a ref inside the database no proxy method returns a promise that
\* rejects, whatever the simulated interaction does.
C3_ProxyNeverRejects ==
  \A i \in DOMAIN proxyCalls : InDatabase(proxyCalls[i].ref) => ~ProxyRejected(i)

\* C4: each proxy method call enqueues exactly one request carrying the
\* proxy's token, the given ref and the call list of that method.
C4_ProxyEnqueues ==
  \A i \in DOMAIN proxyCalls :
    InDatabase(proxyCalls[i].ref) =>
      /\ proxyCalls[i].request \in Accepted
      /\ requests[proxyCalls[i].request].token = proxyCalls[i].token
      /\ requests[proxyCalls[i].request].ref = proxyCalls[i].ref
      /\ requests[proxyCalls[i].request].calls =
           ProxyCalls(proxyCalls[i].method, proxyCalls[i].value)

\* a simulation that ended in failure: its result is the error string of the
\* catch of _simulateCalls
Failed(r) ==
  requests[r].pc = "done" /\ StartsWith(requests[r].result, "Error running simulation: ")

\* C5: failure isolation.  The promise of an accepted request never rejects;
\* a queued request whose predecessors have all completed, failed or not, can
\* start; and a request that completed after a failed one without failing
\* itself invoked unauth, authWithCustomToken and each of its own calls once
\* and returned the result of its own traces.
C5_FailureIsolation ==
  /\ \A r \in Accepted : requests[r].promise # "rejected"
  /\ \A q \in Accepted :
       (requests[q].pc = "queued" /\ \A r \in Accepted : r < q => requests[r].pc = "done")
         => ENABLED StartSimulation(q)
  /\ \A r, q \in Accepted :
       (r < q /\ Failed(r) /\ requests[q].pc = "done" /\ ~Failed(q)) =>
         /\ Cardinality(OpsOf(q)) = 2 + Len(requests[q].calls)
         /\ requests[q].result = FinalResult(requests[q].traces)
         /\ requests[q].promise = "fulfilled"

\* C5 witness: the first request failed to authenticate and the second one,
\* queued behind it, ran its two calls and returned a trace.
C5_Witness ==
  /\ Len(requests) = 2
  /\ Failed(1)
  /\ requests[2].pc = "done" /\ Len(requests[2].calls) = 2 /\ requests[2].traces # <<>>

\* C6: a request whose ref is outside the database is refused at once: its
\* promise rejects, it never becomes the tail of the queue or the predecessor
\* of a request, no operation of the database client is invoked for it, and
\* the step that refuses it changes neither the tail, the requests submitted
\* before, the operations, the TraceBuffer, the cursor nor the interceptor.
C6_FailFast ==
  /\ [](\A r \in DOMAIN requests :
          requests[r].ref = OutsideRef =>
            /\ requests[r].pc = "refused" /\ requests[r].promise = "rejected"
            /\ StartsWith(requests[r].result, "Error: Ref not in database")
            /\ simulationQueue # r
            /\ OpsOf(r) = {}
            /\ \A q \in DOMAIN requests : requests[q].prev # r)
  /\ [][(Len(requests') = Len(requests) + 1 /\ requests'[Len(requests')].ref = OutsideRef) =>
          /\ SubSeq(requests', 1, Len(requests)) = requests
          /\ UNCHANGED <<simulationQueue, ops, simulationConsoleLogs, lastTestIndex,
                         consoleIntercepted, wrappers, originalLog>>]_vars

\* C6 witness: a request outside the database was refused while an earlier
\* request was in the queue, which is still the tail.
C6_Witness ==
  /\ Len(requests) = 2
  /\ requests[1].pc \in {"queued", "auth", "call"}
  /\ requests[2].ref = OutsideRef /\ requests[2].pc = "refused"
  /\ simulationQueue = 1

\* the errors of the model that are permission-denied errors: the code, or
\* the message when there is no code, is 'permission_denied' in some case
DeniedErrors == {PermissionDenied, PermissionDeniedMessage}

\* what one call contributes to the result, from its outcome and from the
\* TraceBuffer as it stood when the call settled; "" is no contribution
Contribution(entry) ==
  IF entry.outcome.ok THEN ""
  ELSE IF entry.outcome.error \in DeniedErrors THEN Join(entry.buffer, "\n")
  ELSE "Got a different error in simulation: " \o StringOfError(entry.outcome.error)

RECURSIVE Contributions(_)
Contributions(entries) ==
  IF entries = <<>> THEN <<>>
  ELSE IF Contribution(Head(entries)) = "" THEN Contributions(Tail(entries))
  ELSE <<Contribution(Head(entries))>> \o Contributions(Tail(entries))

\* the request authenticated and every one of its calls has settled
Classified(r) ==
  /\ requests[r].pc = "done"
  /\ requests[r].log[1].outcome.ok

\* C7: result classification.  For a request whose authentication succeeded
\* the result is the fixed message iff no call contributed a non-empty trace,
\* and otherwise the contributions in call order joined by a blank line; a
\* single set call denied with no diagnostic line gives the fixed message.
C7_ResultClassification ==
  \A r \in DOMAIN requests :
    Classified(r) =>
      LET parts == Contributions(Tail(requests[r].log))
      IN  /\ (requests[r].result = "Unable to reproduce error in simulation") <=> (parts = <<>>)
          /\ parts # <<>> => requests[r].result = JoinStrings(parts, "\n\n")
          /\ ( /\ requests[r].calls = ProxyCalls("set", "v")
               /\ requests[r].log[2].outcome = FailsWith(PermissionDenied)
               /\ requests[r].log[2].buffer = <<>> )
             => requests[r].result = "Unable to reproduce error in simulation"

\* C7 witness: a set request was denied with no diagnostic line and ended
\* with the fixed message.
C7_Witness ==
  \E r \in DOMAIN requests :
    /\ Classified(r)
    /\ requests[r].calls = ProxyCalls("set", "v")
    /\ requests[r].log[2].outcome = FailsWith(PermissionDenied)
    /\ requests[r].log[2].buffer = <<>>
    /\ requests[r].result = "Unable to reproduce error in simulation"

\* the entries of the TraceBuffer, once a call has created it
Entries == IF simulationConsoleLogs = Undefined THEN <<>> ELSE simulationConsoleLogs[1].arr

\* the lines handed to the parser since the TraceBuffer was last reset,
\* without the marker prefix
FedLines == [i \in DOMAIN fed |-> StripPrefix(fed[i].message)]

\* a step in which processTraceLine ran on a TraceBuffer and returned
Parsed ==
  /\ simulationConsoleLogs # Undefined
  /\ Len(fed') = Len(fed) + 1
  /\ lastLog' = "parsed"

\* the line of that step, as classified after the rewrite
ParsedLine == RewriteRuleCheck(StripPrefix(fed'[Len(fed')].message))

\* the cursor points at an entry of the TraceBuffer whose text starts with kind
PendingIs(kind) ==
  /\ simulationConsoleLogs # Undefined
  /\ lastTestIndex # Undefined
  /\ lastTestIndex[1] < Len(Entries)
  /\ Entries[lastTestIndex[1] + 1] # Undefined
  /\ StartsWith(Entries[lastTestIndex[1] + 1][1], " " \o kind \o " ")

PendingText == Entries[lastTestIndex[1] + 1][1]

\* the entries with the pending one replaced by text
WithPending(text) == [Entries EXCEPT ![lastTestIndex[1] + 1] = Val(text)]

\* the entries without the pending one
WithoutPending ==
  SubSeq(Entries, 1, lastTestIndex[1]) \o SubSeq(Entries, lastTestIndex[1] + 2, Len(Entries))

\* C8, as the specification states it: the lines '  foo: .read:bar' and
\* '  => true' leave exactly one entry, the check mark directly followed by
\* ' read foo' with nothing before the mark.
C8_AsStated ==
  (simulationConsoleLogs # Undefined /\ FedLines = <<"  foo: .read:bar", "  => true">>)
    => Entries = <<Val(CheckMark \o " read foo")>>

\* C8, amended: an outcome line arriving while a read or write rule check is
\* pending prepends a space and the mark (check mark for true, ballot x for
\* false) to that entry, changes no other entry and clears the cursor; the
\* lines '  foo: .read:bar' and '  => true' leave the one entry
\* ' <check mark> read foo', with its leading space.
C8_OutcomeAnnotates ==
  /\ [][(Parsed /\ OutcomeMatch(ParsedLine) # Undefined
          /\ (PendingIs("read") \/ PendingIs("write")))
        => /\ Entries' = WithPending(
                (IF OutcomeMatch(ParsedLine)[1] = "true" THEN " " \o CheckMark
                 ELSE " " \o BallotX) \o PendingText)
           /\ lastTestIndex' = Undefined]_vars
  /\ []((simulationConsoleLogs # Undefined /\ FedLines = <<"  foo: .read:bar", "  => true">>)
          => Entries = <<Val(" " \o CheckMark \o " read foo")>>)

\* C8 witness: the two lines were fed and the entry carries its mark.
C8_Witness ==
  /\ FedLines = <<"  foo: .read:bar", "  => true">>
  /\ Entries = <<Val(" " \o CheckMark \o " read foo")>>
  /\ lastTestIndex = Undefined

\* an entry of kind value that carries the check mark
MarkedPassingValue(e) == e # Undefined /\ StartsWith(e[1], " " \o CheckMark \o " value")

\* C9: passing value checks are elided.  '=> true' arriving while a value
\* entry is pending removes that entry, keeps the others in order and clears
\* the cursor; '=> false' keeps it and marks it with the ballot x; and the
\* TraceBuffer never holds a value entry that carries the check mark.
C9_PassingValueElided ==
  /\ [][(Parsed /\ OutcomeMatch(ParsedLine) = Val("true") /\ PendingIs("value"))
        => (Entries' = WithoutPending /\ lastTestIndex' = Undefined)]_vars
  /\ [][(Parsed /\ OutcomeMatch(ParsedLine) = Val("false") /\ PendingIs("value"))
        => (Entries' = WithPending(" " \o BallotX \o PendingText)
            /\ lastTestIndex' = Undefined)]_vars
  /\ [](\A i \in DOMAIN Entries : ~MarkedPassingValue(Entries[i]))

\* C9 witness: a passing validate check was fed after a numbered line and
\* only the numbered line is left.
C9_Witness ==
  /\ FedLines = <<"1:2: expr", "  /b:.validate:v", "  => true">>
  /\ Entries = <<Val("   1:2: expr")>>
  /\ lastTestIndex = Undefined

\* the entries after the stale pending one, which is the last, gave way to line
Superseded(line) == Append(SubSeq(Entries, 1, Len(Entries) - 1), Val(line))

\* C10, as the specification states it: the lines '  a: .write:x',
\* '  b: .write:y' and '  => false' leave the single entry of the ballot x
\* directly followed by ' write b'.
C10_AsStated ==
  (simulationConsoleLogs # Undefined
     /\ FedLines = <<"  a: .write:x", "  b: .write:y", "  => false">>)
    => Entries = <<Val(BallotX \o " write b")>>

\* C10, amended: when an indented line that is no outcome, or a top-level
\* line that is not numbered, arrives while the cursor points at the last
\* slot, that entry is dropped before the line is appended; the indented
\* line then sets the cursor to the new last index and the top-level line
\* clears it.  The lines '  a: .write:x', '  b: .write:y' and '  => false'
\* leave the single entry ' <ballot x> read b': with a space between the
\* colon and the tag the kind is read.
C10_StaleSuperseded ==
  /\ [][(Parsed /\ PointsAtLast(simulationConsoleLogs[1], lastTestIndex)
          /\ IsIndented(ParsedLine) /\ OutcomeMatch(ParsedLine) = Undefined)
        => (Entries' = Superseded(ParsedLine)
            /\ lastTestIndex' = Val(Len(Entries') - 1))]_vars
  /\ [][(Parsed /\ PointsAtLast(simulationConsoleLogs[1], lastTestIndex)
          /\ ~IsIndented(ParsedLine) /\ ~IsNumbered(ParsedLine))
        => (Entries' = Superseded(ParsedLine) /\ lastTestIndex' = Undefined)]_vars
  /\ []((simulationConsoleLogs # Undefined
           /\ FedLines = <<"  a: .write:x", "  b: .write:y", "  => false">>)
          => Entries = <<Val(" " \o BallotX \o " read b")>>)

\* C10 witness: the three lines were fed and only the marked second check is left.
C10_Witness ==
  /\ FedLines = <<"  a: .write:x", "  b: .write:y", "  => false">>
  /\ Entries = <<Val(" " \o BallotX \o " read b")>>

\* the messages folded into the TraceBuffer of call i of request r, and the
\* entries of that TraceBuffer when the call settled
LinesOf(r, i) == requests[r].log[i + 1].lines

BufferOf(r, i) == requests[r].log[i + 1].buffer

\* the calls of every request that have settled
SettledCalls == {c \in (DOMAIN requests) \X (1..2) : Len(requests[c[1]].log) > c[2]}

\* C11: parser determinism.  Two calls that were fed the same sequence of
\* diagnostic lines, each into the empty TraceBuffer its call started with
\* and the later one from the parser state the earlier one left, end with
\* the same entries in the TraceBuffer.
C11_ParserDeterminism ==
  \A c, d \in SettledCalls :
    LinesOf(c[1], c[2]) = LinesOf(d[1], d[2]) => BufferOf(c[1], c[2]) = BufferOf(d[1], d[2])

\* a step that is one call of console.log through the installed filter
Filtered == wrappers = 1 /\ logCount' = logCount + 1

\* the call reached the original console.log, once and with its own
\* arguments, and not the parser
ForwardedOnly ==
  /\ Len(originalLog') = Len(originalLog) + 1
  /\ SubSeq(originalLog', 1, Len(originalLog)) = originalLog
  /\ originalLog'[Len(originalLog')] \in limits.messages
  /\ ~MatchesPrefix(JoinStrings(originalLog'[Len(originalLog')], " "))
  /\ UNCHANGED <<simulationConsoleLogs, lastTestIndex, fed>>

\* the call reached the parser, once and with the joined message, and not
\* the original console.log
ParsedOnly ==
  /\ Len(fed') = Len(fed) + 1
  /\ SubSeq(fed', 1, Len(fed)) = fed
  /\ fed'[Len(fed')].message \in {JoinStrings(args, " ") : args \in limits.messages}
  /\ MatchesPrefix(fed'[Len(fed')].message)
  /\ UNCHANGED originalLog

\* C12: the interceptor is idempotent and filters.  console.log is wrapped
\* at most once, exactly once as soon as _simulate has accepted a request,
\* and stays wrapped; through the filter a line that does not start with the
\* marker goes once, unchanged, to the original console.log and not to
\* the parser, and a line that starts with it goes once to the parser and
\* not to the original console.log.
C12_InterceptOnceAndFilter ==
  /\ [](wrappers <= 1 /\ (consoleIntercepted <=> wrappers = 1)
          /\ (Accepted # {} => wrappers = 1))
  /\ [][wrappers = 1 => wrappers' = 1]_vars
  /\ [][Filtered => (ForwardedOnly \/ ParsedOnly)]_vars

\* C12 witness: after two accepted requests one unrelated line has reached
\* the original console.log and one diagnostic line the parser.
C12_Witness ==
  /\ Cardinality(Accepted) = 2
  /\ wrappers = 1
  /\ originalLog = <<QuotedLog>>
  /\ Len(fed) = 1 /\ fed[1].message = "FIREBASE:   /a:.write:w"

\* the code of an error, or its message when it has no code (none, or empty)
CodeOrMessage(error) ==
  IF error.code # Undefined /\ error.code[1] # "" THEN error.code ELSE error.message

\* the error is a permission-denied error: that text is 'permission_denied'
\* in some mix of cases
SaysPermissionDenied(error) ==
  /\ CodeOrMessage(error) # Undefined
  /\ Len(CodeOrMessage(error)[1]) = Len("permission_denied")
  /\ \A i \in 1..Len("permission_denied") :
        LET c == Ch(CodeOrMessage(error)[1], i)
        IN  (IF c \in DOMAIN LowerOf THEN LowerOf[c] ELSE c) = Ch("permission_denied", i)

\* the calls that failed, for whose error isPermissionDenied was called
FailedCalls ==
  {c \in SettledCalls : ~requests[c[1]].log[c[2] + 1].outcome.ok}

\* C13: isPermissionDenied returns true when the error's code, or its
\* message when it has no code, is 'permission_denied' ignoring case, and
\* false for every other error.
C13_PermissionDeniedIsBoolean ==
  \A c \in FailedCalls :
    LET entry == requests[c[1]].log[c[2] + 1]
    IN  entry.denied = (IF SaysPermissionDenied(entry.outcome.error) THEN "true" ELSE "false")

\* an entry the rewrite of a rule-check line produced, still without a mark
UnmarkedRuleCheck(e) ==
  /\ e # Undefined
  /\ \E kind \in {"read", "write", "value"} : StartsWith(e[1], " " \o kind \o " ")

\* C14: cursor validity.  In every reachable state the cursor is none, or
\* the index of an entry of the current TraceBuffer that is a rule check
\* pushed during the current call and not yet marked.
C14_CursorValid ==
  lastTestIndex # Undefined =>
    /\ simulationConsoleLogs # Undefined
    /\ lastTestIndex[1] < Len(Entries)
    /\ UnmarkedRuleCheck(Entries[lastTestIndex[1] + 1])

\* a rule-check entry, marked or not
RuleCheckEntry(e) ==
  \/ UnmarkedRuleCheck(e)
  \/ /\ e # Undefined
     /\ \E mark \in {CheckMark, BallotX} :
          StartsWith(e[1], " " \o mark) /\ UnmarkedRuleCheck(Val(Slice(e[1], 2)))

\* an entry a numbered top-level line produced
NumberedEntry(e) == e # Undefined /\ StartsWith(e[1], "   ") /\ IsNumbered(Slice(e[1], 3))

\* C15, as the specification states it: the TraceBuffer of a call holds at
\* most one rule-check entry without a mark, and no rule-check entry was
\* pushed after it.
C15_AsStated ==
  \A i, j \in DOMAIN Entries :
    (i < j /\ UnmarkedRuleCheck(Entries[i])) => ~RuleCheckEntry(Entries[j])

\* C15, amended: a rule-check entry without a mark is the last entry of the
\* TraceBuffer or is directly followed by a numbered line; a pending check
\* gives way only to a line that arrives directly after it, so unmarked rule
\* checks that numbered lines separate do accumulate.
C15_UnresolvedOnlyBeforeNumbered ==
  \A i \in DOMAIN Entries :
    (i < Len(Entries) /\ UnmarkedRuleCheck(Entries[i])) => NumberedEntry(Entries[i + 1])

\* C15 witness: two unmarked rule checks of one call, a numbered line between them.
C15_Witness ==
  /\ FedLines = <<"  /a:.write:w", "1:2: expr", "  /b:.validate:v">>
  /\ Entries = <<Val(" write /a"), Val("   1:2: expr"), Val(" value /b")>>
  /\ owner \in InFlight

\* the entries that numbered lines produced, in order
NumberedEntries(entries) == SelectSeq(entries, NumberedEntry)

\* s is an initial segment of t
IsPrefix(s, t) == Len(s) <= Len(t) /\ SubSeq(t, 1, Len(s)) = s

\* C16: a numbered line is appended behind a fixed indent of three spaces
\* and changes neither the cursor nor an entry; and no later line drops or
\* changes the entry of a numbered line, so an outcome line that comes after
\* a pending rule check and numbered lines never marks a numbered line.
C16_NumberedLinesKept ==
  /\ [][(Parsed /\ IsNumbered(ParsedLine))
        => (Entries' = Append(Entries, Val("   " \o ParsedLine))
            /\ lastTestIndex' = lastTestIndex)]_vars
  /\ [][Parsed => IsPrefix(NumberedEntries(Entries), NumberedEntries(Entries'))]_vars

\* the operations invoked on the database client for request r, in order
OpSeqOf(r) == SelectSeq(ops, LAMBDA o : o.req = r)

\* what a simulation of request r invokes when nothing fails to authenticate
ExpectedOps(r) ==
  << [req |-> r, target |-> "", op |-> "unauth", args |-> Undefined],
     [req |-> r, target |-> "", op |-> "authWithCustomToken",
      args |-> Val(<<requests[r].token, "remember: none">>)] >>
  \o [i \in 1..Len(requests[r].calls) |->
        [req |-> r, target |-> Slice(requests[r].ref, Len(DatabaseUrl)),
         op |-> requests[r].calls[i].method, args |-> requests[r].calls[i].args]]

\* the awaited operations of request r that have settled
SettledOf(r) == Len(requests[r].log)

\* C17: order inside one simulation.  The operations invoked for a request
\* are always an initial segment of: unauth, authWithCustomToken with the
\* request's token and remember 'none', then its calls in the given order,
\* each once; exactly one of them is unsettled while the request is active,
\* so a call is invoked only after authentication and every earlier call
\* settled, whatever their outcomes; a request whose authentication succeeded
\* ends having invoked every call, and one whose authentication failed ends
\* with no call invoked and the result 'Error running simulation: ' and the error.
C17_OrderInsideSimulation ==
  \A r \in Accepted :
    /\ IsPrefix(OpSeqOf(r), ExpectedOps(r))
    /\ requests[r].pc = "queued" => OpSeqOf(r) = <<>>
    /\ requests[r].pc \in {"auth", "call"} => Len(OpSeqOf(r)) = 2 + SettledOf(r)
    /\ requests[r].pc = "done" =>
         IF requests[r].log[1].outcome.ok
         THEN OpSeqOf(r) = ExpectedOps(r) /\ SettledOf(r) = 1 + Len(requests[r].calls)
         ELSE /\ Len(OpSeqOf(r)) = 2
              /\ requests[r].promise = "fulfilled"
              /\ requests[r].result =
                   "Error running simulation: " \o StringOfError(requests[r].log[1].outcome.error)

\* C17 witness: one request failed to authenticate after its two operations,
\* and a transaction request ran both calls although the first one failed.
C17_Witness ==
  /\ Len(requests) = 2
  /\ requests[1].pc = "done" /\ ~requests[1].log[1].outcome.ok /\ Len(OpSeqOf(1)) = 2
  /\ requests[2].pc = "done" /\ Len(requests[2].calls) = 2 /\ SettledOf(2) = 3
  /\ ~requests[2].log[2].outcome.ok /\ Len(OpSeqOf(2)) = 4

\* C18: the TraceBuffer and the cursor change only while a call of the
\* active request is in flight: the step that resets the buffer begins a
\* call, and a diagnostic line that console.log receives while no call is
\* in flight changes neither the TraceBuffer nor the cursor.
C18_MutatedOnlyDuringCall ==
  /\ [][simulationConsoleLogs' # simulationConsoleLogs => InFlight' # {}]_vars
  /\ [][(InFlight = {} /\ logCount' = logCount + 1)
        => UNCHANGED <<simulationConsoleLogs, lastTestIndex>>]_vars

\* C19: parser totality.  Once the filter is installed no call of
\* console.log with a diagnostic line ends with processTraceLine throwing,
\* whether or not a TraceBuffer exists and whatever the cursor is; and an
\* outcome line that arrives while the cursor is none leaves the entries of
\* the TraceBuffer as they were.
C19_ParserTotal ==
  /\ [](lastLog # "threw")
  /\ [][(Parsed /\ OutcomeMatch(ParsedLine) # Undefined /\ lastTestIndex = Undefined)
        => Entries' = Entries]_vars

\* C20: liveness.  When every reaction of the queue runs and every external
\* operation settles, each request _simulate accepted ends with its promise
\* fulfilled with a result string, however many requests are queued before
\* it and however they end; and as long as an earlier accepted request has
\* not ended, a later one is still queued with its promise pending, so an
\* operation that never settles holds back every later request.
C20_EveryRequestResolves ==
  /\ \A r \in 1..MaxRequests :
       (r \in Accepted) ~>
         (r \in Accepted /\ requests[r].promise = "fulfilled" /\ Len(requests[r].result) > 0)
  /\ [](\A r, q \in Accepted :
          (r < q /\ requests[r].pc # "done") =>
            (requests[q].pc = "queued" /\ requests[q].promise = "pending"))

\* C20 witness: the second request was fulfilled after the first one had
\* ended with the trace of a denied call.
C20_Witness ==
  /\ Len(requests) = 2
  /\ requests[1].promise = "fulfilled" /\ requests[1].traces # <<>>
  /\ requests[2].promise = "fulfilled"
  /\ requests[2].result = "Unable to reproduce error in simulation"

=============================================================================
